---- MODULE Spec2Model ----
(***************************************************************************)
(* Chargeback service: the create-chargeback use case (Execute) running    *)
(* against a record store, and the chargeback entity (request validation,  *)
(* factory, card-number masking, approve / reject).                        *)
(*                                                                         *)
(* Go strings are TLA+ strings; Head, Tail, SubSeq, Len and \o act on them *)
(* character by character.  Amounts are integers (cents), instants are     *)
(* integers with 0 the zero time.                                          *)
(***************************************************************************)
EXTENDS Integers, Sequences, FiniteSets, TLC

(***************************************************************************)
(* Bounds of the model.                                                    *)
(***************************************************************************)
\* number of Execute calls that may be in flight / issued
NumCalls == 2
\* the clock advances from 1 up to this instant
MaxClock == 2
MaxCardLen == 6
MaxHeap == 1
MaxLogs == 1

Calls == 1..NumCalls

(***************************************************************************)
(* nil (pointer, error) and Go errors.                                     *)
(***************************************************************************)
Nil == [nil |-> TRUE]

IsNil(x) == x = Nil

\* errors.New(msg)
NewError(msg) == [msg |-> msg, wrapped |-> Nil]

\* fmt.Errorf(prefix + "%w", err): the text is prefix followed by err's
\* text, and errors.Unwrap gives err back
ErrorfW(prefix, err) == [msg |-> prefix \o err.msg, wrapped |-> err]

\* errors.Unwrap(err)
Unwrap(err) == IF IsNil(err) THEN Nil ELSE err.wrapped

(***************************************************************************)
(* Helpers of package strings, as the entity code uses them.               *)
(***************************************************************************)
WhiteSpace == {" ", "\t", "\n", "\r"}

RECURSIVE TrimLeft(_)
TrimLeft(s) ==
    IF Len(s) > 0 /\ Head(s) \in WhiteSpace THEN TrimLeft(Tail(s)) ELSE s

RECURSIVE TrimRight(_)
TrimRight(s) ==
    IF Len(s) > 0 /\ SubSeq(s, Len(s), Len(s)) \in WhiteSpace
    THEN TrimRight(SubSeq(s, 1, Len(s) - 1))
    ELSE s

\* strings.TrimSpace(s)
TrimSpace(s) == TrimRight(TrimLeft(s))

\* strings.ReplaceAll(s, old, "") for a one-character old
RECURSIVE RemoveAll(_, _)
RemoveAll(s, old) ==
    IF Len(s) = 0 THEN ""
    ELSE IF Head(s) = old THEN RemoveAll(Tail(s), old)
    ELSE Head(s) \o RemoveAll(Tail(s), old)

\* strings.Repeat(s, count)
RECURSIVE Repeat(_, _)
Repeat(s, count) == IF count <= 0 THEN "" ELSE s \o Repeat(s, count - 1)

\* strings.Join(elems, sep)
RECURSIVE Join(_, _)
Join(elems, sep) ==
    IF Len(elems) = 0 THEN ""
    ELSE IF Len(elems) = 1 THEN elems[1]
    ELSE elems[1] \o sep \o Join(Tail(elems), sep)

(***************************************************************************)
(* Entity: statuses, reasons, validation, masking, factory, transitions.   *)
(***************************************************************************)
StatusPending == "pending"
StatusApproved == "approved"
StatusRejected == "rejected"

ReasonFraud == "fraud"
ReasonAuthorizationError == "authorization_error"
ReasonProcessingError == "processing_error"
ReasonConsumerDispute == "consumer_dispute"

\* isValidReason(reason)
isValidReason(reason) ==
    LET validReasons == <<ReasonFraud, ReasonAuthorizationError,
                          ReasonProcessingError, ReasonConsumerDispute>>
    IN \E i \in 1..Len(validReasons) : reason = validReasons[i]

\* Validate accepting an amount of zero
ValidationErrorsZeroAmount(req) ==
    (IF TrimSpace(req.TransactionID) = ""
        THEN <<"transaction ID is required">> ELSE <<>>)
    \o (IF TrimSpace(req.MerchantID) = ""
        THEN <<"merchant ID is required">> ELSE <<>>)
    \o (IF req.Amount < 0
        THEN <<"amount must be greater than zero">> ELSE <<>>)
    \o (IF TrimSpace(req.Currency) = ""
        THEN <<"currency is required">> ELSE <<>>)
    \o (IF TrimSpace(req.CardNumber) = ""
        THEN <<"card number is required">> ELSE <<>>)
    \o (IF ~isValidReason(req.Reason)
        THEN <<"invalid chargeback reason">> ELSE <<>>)
    \o (IF req.TransactionDate = 0
        THEN <<"transaction date is required">> ELSE <<>>)

\* Validate stopping at the first violated rule
ValidationErrorsFirstOnly(req) ==
    IF TrimSpace(req.TransactionID) = ""
    THEN <<"transaction ID is required">>
    ELSE IF TrimSpace(req.MerchantID) = ""
    THEN <<"merchant ID is required">>
    ELSE IF req.Amount <= 0
    THEN <<"amount must be greater than zero">>
    ELSE IF TrimSpace(req.Currency) = ""
    THEN <<"currency is required">>
    ELSE IF TrimSpace(req.CardNumber) = ""
    THEN <<"card number is required">>
    ELSE IF ~isValidReason(req.Reason)
    THEN <<"invalid chargeback reason">>
    ELSE IF req.TransactionDate = 0
    THEN <<"transaction date is required">>
    ELSE <<>>

\* the list of violation messages Validate collects, in the order checked
ValidationErrors(req) ==
    (IF TrimSpace(req.TransactionID) = ""
        THEN <<"transaction ID is required">> ELSE <<>>)
    \o (IF TrimSpace(req.MerchantID) = ""
        THEN <<"merchant ID is required">> ELSE <<>>)
    \o (IF req.Amount <= 0
        THEN <<"amount must be greater than zero">> ELSE <<>>)
    \o (IF TrimSpace(req.Currency) = ""
        THEN <<"currency is required">> ELSE <<>>)
    \o (IF TrimSpace(req.CardNumber) = ""
        THEN <<"card number is required">> ELSE <<>>)
    \o (IF ~isValidReason(req.Reason)
        THEN <<"invalid chargeback reason">> ELSE <<>>)
    \o (IF req.TransactionDate = 0
        THEN <<"transaction date is required">> ELSE <<>>)

\* CreateChargebackRequest.Validate
Validate(req) ==
    LET errors == ValidationErrors(req)
    IN IF Len(errors) > 0
       THEN NewError("validation errors: " \o Join(errors, "; "))
       ELSE Nil

\* maskCardNumber with a mask of three characters for a short number
maskCardNumberThreeStars(cardNumber) ==
    LET cleaned == RemoveAll(RemoveAll(cardNumber, " "), "-")
    IN IF Len(cleaned) < 4
       THEN "***"
       ELSE Repeat("*", Len(cleaned) - 4)
            \o SubSeq(cleaned, Len(cleaned) - 3, Len(cleaned))

\* maskCardNumber taking the last four characters of the number as given
maskCardNumberRawTail(cardNumber) ==
    LET cleaned == RemoveAll(RemoveAll(cardNumber, " "), "-")
    IN IF Len(cleaned) < 4
       THEN "****"
       ELSE Repeat("*", Len(cleaned) - 4)
            \o SubSeq(cardNumber, Len(cardNumber) - 3, Len(cardNumber))

\* maskCardNumber masking nothing of a number of four characters or more
maskCardNumberCleanedOnly(cardNumber) ==
    LET cleaned == RemoveAll(RemoveAll(cardNumber, " "), "-")
    IN IF Len(cleaned) < 4
       THEN "****"
       ELSE cleaned

\* maskCardNumber masking a number of exactly four characters whole
maskCardNumberAtMostFour(cardNumber) ==
    LET cleaned == RemoveAll(RemoveAll(cardNumber, " "), "-")
    IN IF Len(cleaned) <= 4
       THEN "****"
       ELSE Repeat("*", Len(cleaned) - 4)
            \o SubSeq(cleaned, Len(cleaned) - 3, Len(cleaned))

\* maskCardNumber removing the spaces only
maskCardNumberSpacesOnly(cardNumber) ==
    LET cleaned == RemoveAll(cardNumber, " ")
    IN IF Len(cleaned) < 4
       THEN "****"
       ELSE Repeat("*", Len(cleaned) - 4)
            \o SubSeq(cleaned, Len(cleaned) - 3, Len(cleaned))

\* maskCardNumber(cardNumber)
maskCardNumber(cardNumber) ==
    LET cleaned == RemoveAll(RemoveAll(cardNumber, " "), "-")
    IN IF Len(cleaned) < 4
       THEN "****"
       ELSE Repeat("*", Len(cleaned) - 4)
            \o SubSeq(cleaned, Len(cleaned) - 3, Len(cleaned))

\* NewChargeback wrapping the error of Validate
NewChargebackWrapped(req, now) ==
    LET err == Validate(req)
    IN IF ~IsNil(err)
       THEN [chargeback |-> Nil,
             err |-> ErrorfW("invalid chargeback request", err)]
       ELSE [chargeback |->
                [ID |-> "",
                 TransactionID |-> req.TransactionID,
                 MerchantID |-> req.MerchantID,
                 Amount |-> req.Amount,
                 Currency |-> req.Currency,
                 CardNumber |-> maskCardNumber(req.CardNumber),
                 Reason |-> req.Reason,
                 Status |-> StatusPending,
                 Description |-> req.Description,
                 TransactionDate |-> req.TransactionDate,
                 ChargebackDate |-> now,
                 CreatedAt |-> now,
                 UpdatedAt |-> now],
             err |-> Nil]

\* NewChargeback keeping the card number as submitted
NewChargebackRawCard(req, now) ==
    LET err == Validate(req)
    IN IF ~IsNil(err)
       THEN [chargeback |-> Nil, err |-> err]
       ELSE [chargeback |->
                [ID |-> "",
                 TransactionID |-> req.TransactionID,
                 MerchantID |-> req.MerchantID,
                 Amount |-> req.Amount,
                 Currency |-> req.Currency,
                 CardNumber |-> req.CardNumber,
                 Reason |-> req.Reason,
                 Status |-> StatusPending,
                 Description |-> req.Description,
                 TransactionDate |-> req.TransactionDate,
                 ChargebackDate |-> now,
                 CreatedAt |-> now,
                 UpdatedAt |-> now],
             err |-> Nil]

\* NewChargeback leaving the chargeback date at the zero instant
NewChargebackNoDate(req, now) ==
    LET err == Validate(req)
    IN IF ~IsNil(err)
       THEN [chargeback |-> Nil, err |-> err]
       ELSE [chargeback |->
                [ID |-> "",
                 TransactionID |-> req.TransactionID,
                 MerchantID |-> req.MerchantID,
                 Amount |-> req.Amount,
                 Currency |-> req.Currency,
                 CardNumber |-> maskCardNumber(req.CardNumber),
                 Reason |-> req.Reason,
                 Status |-> StatusPending,
                 Description |-> req.Description,
                 TransactionDate |-> req.TransactionDate,
                 ChargebackDate |-> 0,
                 CreatedAt |-> now,
                 UpdatedAt |-> now],
             err |-> Nil]

\* NewChargeback(req), with now the instant time.Now() returns
NewChargeback(req, now) ==
    LET err == Validate(req)
    IN IF ~IsNil(err)
       THEN [chargeback |-> Nil, err |-> err]
       ELSE [chargeback |->
                [ID |-> "",
                 TransactionID |-> req.TransactionID,
                 MerchantID |-> req.MerchantID,
                 Amount |-> req.Amount,
                 Currency |-> req.Currency,
                 CardNumber |-> maskCardNumber(req.CardNumber),
                 Reason |-> req.Reason,
                 Status |-> StatusPending,
                 Description |-> req.Description,
                 TransactionDate |-> req.TransactionDate,
                 ChargebackDate |-> now,
                 CreatedAt |-> now,
                 UpdatedAt |-> now],
             err |-> Nil]

\* Approve leaving updated-at as it was
ApproveNoRefresh(c, now) ==
    IF c.Status # StatusPending
    THEN [chargeback |-> c,
          err |-> NewError("only pending chargebacks can be approved")]
    ELSE [chargeback |-> [c EXCEPT !.Status = StatusApproved],
          err |-> Nil]

\* Chargeback.Approve, with now the instant time.Now() returns
Approve(c, now) ==
    IF c.Status # StatusPending
    THEN [chargeback |-> c,
          err |-> NewError("only pending chargebacks can be approved")]
    ELSE [chargeback |-> [c EXCEPT !.Status = StatusApproved,
                                   !.UpdatedAt = now],
          err |-> Nil]

\* Reject without its check of the current status
RejectUnguarded(c, now) ==
    [chargeback |-> [c EXCEPT !.Status = StatusRejected, !.UpdatedAt = now],
     err |-> Nil]

\* Chargeback.Reject, with now the instant time.Now() returns
Reject(c, now) ==
    IF c.Status # StatusPending
    THEN [chargeback |-> c,
          err |-> NewError("only pending chargebacks can be rejected")]
    ELSE [chargeback |-> [c EXCEPT !.Status = StatusRejected,
                                   !.UpdatedAt = now],
          err |-> Nil]

\* Chargeback.IsValid
IsValid(c) ==
    /\ c.TransactionID # ""
    /\ c.MerchantID # ""
    /\ c.Amount > 0
    /\ c.Currency # ""
    /\ c.CardNumber # ""
    /\ c.Reason # ""
    /\ c.TransactionDate # 0
    /\ c.ChargebackDate # 0

(***************************************************************************)
(* The record store the use case talks to, an external collaborator behind *)
(* the repository interface.  It is modelled by its contract:              *)
(* findByTransactionID(id) -> record | absent, save(record) -> assigns the *)
(* identifier, error | success.  Either operation may fail; a failed save  *)
(* writes nothing.                                                         *)
(***************************************************************************)
StoreErrors == {NewError("database connection failed"),
                NewError("failed to save to database")}

\* the positions of the records of s with transaction ID txid
RecordsOf(s, txid) == {i \in 1..Len(s) : s[i].TransactionID = txid}

\* what a successful lookup returns: a record with that transaction ID, or
\* nil when there is none
FindByTransactionID(s, txid) ==
    IF RecordsOf(s, txid) = {}
    THEN Nil
    ELSE s[CHOOSE i \in RecordsOf(s, txid) :
               \A j \in RecordsOf(s, txid) : i <= j]

\* decimal text of a natural number
RECURSIVE Itoa(_)
Itoa(n) ==
    IF n < 10 THEN SubSeq("0123456789", n + 1, n + 1)
    ELSE Itoa(n \div 10) \o Itoa(n % 10)

\* the identifier the store assigns to its n-th record
NewID(n) == "cb_" \o Itoa(n)

\* the record as a successful save leaves it: the identifier assigned
Saved(c, id) == [c EXCEPT !.ID = id]

(***************************************************************************)
(* Requests.                                                               *)
(***************************************************************************)
Request(tx, merchant, amount, currency, card, reason, descr, date) ==
    [TransactionID |-> tx, MerchantID |-> merchant, Amount |-> amount,
     Currency |-> currency, CardNumber |-> card, Reason |-> reason,
     Description |-> descr, TransactionDate |-> date]

\* the requests submitted to Execute: valid ones (two of them for the same
\* transaction), and invalid ones
Requests ==
    {Request("tx-1", "m-1", 15075, "USD", "4111111111111111",
             ReasonFraud, "Suspicious transaction", 5),
     Request("tx-1", "m-2", 10000, "USD", "5555-5555 5555-4444",
             ReasonConsumerDispute, "", 7),
     Request("tx-2", "m-1", 9999, "BRL", "1234",
             ReasonProcessingError, "", 3),
     Request("tx-1", "m-1", 0, "USD", "4111111111111111",
             ReasonFraud, "", 5),
     Request("  ", "m-1", -5000, "", "4111111111111111",
             "not_a_reason", "", 0)}

(***************************************************************************)
(* State.                                                                  *)
(***************************************************************************)
VARIABLES
    store,    \* the persisted records, in the order they were written
    nextID,   \* the number the store gives its next record
    clock,    \* the instant time.Now() returns
    call,     \* call[p]: the Execute call p, its position and its locals
    cb,       \* an entity on its own: the record NewChargeback returned
    cbReq,    \* the request it was made from
    cbErr,    \* the error of the last operation on it
    cbPc,     \* "init", then "made" or "failed"
    cbOp,     \* the last operation called on it, "" before the first
    invocation, \* the request the Lambda handler is invoked with, or last was
    response, \* the handler's response to it, nil while it is being handled
    masked,   \* a card number and what maskCardNumber made of it, or nil
    httpReq,  \* the request the HTTP server is serving, or last served
    httpResp, \* what the server wrote in answer to it
    logger,   \* the StructuredLogger, nil before it is constructed
    logOut,   \* the records the logger wrote to its output, in order
    logRes,   \* the last Log call: its entry and the error it returned
    heap,     \* the field maps of log entries, by reference
    entryOp   \* the last WithField or WithFields call and its result

vars == <<store, nextID, clock, call, cb, cbReq, cbErr, cbPc, cbOp,
          invocation, response, masked, httpReq, httpResp, logger, logOut,
          logRes, heap, entryOp>>

useCaseVars == <<store, nextID, call>>

entityVars == <<cb, cbReq, cbErr, cbPc, cbOp>>

lambdaVars == <<invocation, response>>

serverVars == <<httpReq, httpResp>>

loggerVars == <<logger, logOut, logRes>>

logEntryVars == <<heap, entryOp>>

\* a call not yet made
IdleCall ==
    [pc |-> "idle", req |-> Nil, existingChargeback |-> Nil,
     lookupErr |-> Nil, chargeback |-> Nil, newErr |-> Nil, saveErr |-> Nil,
     resp |-> Nil, err |-> Nil, trace |-> <<>>]

Init ==
    /\ store = <<>>
    /\ nextID = 1
    /\ clock = 1
    /\ call = [p \in Calls |-> IdleCall]
    /\ cb = Nil
    /\ cbReq = Nil
    /\ cbErr = Nil
    /\ cbPc = "init"
    /\ cbOp = ""
    /\ invocation = Nil
    /\ response = Nil
    /\ masked = Nil
    /\ httpReq = Nil
    /\ httpResp = Nil
    /\ logger = Nil
    /\ logOut = <<>>
    /\ logRes = Nil
    /\ heap = <<>>
    /\ entryOp = Nil

(***************************************************************************)
(* CreateChargebackUseCase.Execute.                                        *)
(***************************************************************************)
\* return resp, err
Return(resp, err) == [pc |-> "done", resp |-> resp, err |-> err]

\* go on to the step at label
Continue(label) == [pc |-> label, resp |-> Nil, err |-> Nil]

\* AfterFind without the check for an existing record
AfterFindNoDuplicateCheck(req, existingChargeback, err) ==
    IF ~IsNil(err)
    THEN Return(Nil, ErrorfW("failed to check existing chargeback: ", err))
    ELSE Continue("create")

\* AfterFind formatting the store's error with %v: the text only
AfterFindNoWrap(req, existingChargeback, err) ==
    IF ~IsNil(err)
    THEN Return(Nil, NewError("failed to check existing chargeback: "
                              \o err.msg))
    ELSE IF ~IsNil(existingChargeback)
    THEN Return(Nil, NewError("chargeback already exists for transaction "
                              \o req.TransactionID))
    ELSE Continue("create")

\* AfterFind naming the found record's identifier in the duplicate error
AfterFindWrongID(req, existingChargeback, err) ==
    IF ~IsNil(err)
    THEN Return(Nil, ErrorfW("failed to check existing chargeback: ", err))
    ELSE IF ~IsNil(existingChargeback)
    THEN Return(Nil, NewError("chargeback already exists for transaction "
                              \o existingChargeback.ID))
    ELSE Continue("create")

\* 1. the checks on what FindByTransactionID returned
AfterFind(req, existingChargeback, err) ==
    IF ~IsNil(err)
    THEN Return(Nil, ErrorfW("failed to check existing chargeback: ", err))
    ELSE IF ~IsNil(existingChargeback)
    THEN Return(Nil, NewError("chargeback already exists for transaction "
                              \o req.TransactionID))
    ELSE Continue("create")

\* 2. the entity request built from the use case's request
ToEntityRequest(req) ==
    [TransactionID |-> req.TransactionID,
     MerchantID |-> req.MerchantID,
     Amount |-> req.Amount,
     Currency |-> req.Currency,
     CardNumber |-> req.CardNumber,
     Reason |-> req.Reason,
     Description |-> req.Description,
     TransactionDate |-> req.TransactionDate]

\* AfterNew returning the factory's error as it is
AfterNewUnwrapped(chargeback, err) ==
    IF ~IsNil(err)
    THEN Return(Nil, err)
    ELSE Continue("save")

\* 2. the check on what NewChargeback returned
AfterNew(chargeback, err) ==
    IF ~IsNil(err)
    THEN Return(Nil, ErrorfW("failed to create chargeback entity: ", err))
    ELSE Continue("save")

\* ToResponse with the identifier the record had before Save
ToResponseBeforeSave(chargeback) ==
    [ID |-> "",
     TransactionID |-> chargeback.TransactionID,
     MerchantID |-> chargeback.MerchantID,
     Amount |-> chargeback.Amount,
     Currency |-> chargeback.Currency,
     CardNumber |-> chargeback.CardNumber,
     Reason |-> chargeback.Reason,
     Status |-> chargeback.Status,
     Description |-> chargeback.Description,
     TransactionDate |-> chargeback.TransactionDate,
     ChargebackDate |-> chargeback.ChargebackDate,
     CreatedAt |-> chargeback.CreatedAt,
     UpdatedAt |-> chargeback.UpdatedAt]

\* 4. the response built from the record
ToResponse(chargeback) ==
    [ID |-> chargeback.ID,
     TransactionID |-> chargeback.TransactionID,
     MerchantID |-> chargeback.MerchantID,
     Amount |-> chargeback.Amount,
     Currency |-> chargeback.Currency,
     CardNumber |-> chargeback.CardNumber,
     Reason |-> chargeback.Reason,
     Status |-> chargeback.Status,
     Description |-> chargeback.Description,
     TransactionDate |-> chargeback.TransactionDate,
     ChargebackDate |-> chargeback.ChargebackDate,
     CreatedAt |-> chargeback.CreatedAt,
     UpdatedAt |-> chargeback.UpdatedAt]

\* AfterSave returning no response after a successful write
AfterSaveNoResponse(chargeback, err) ==
    IF ~IsNil(err)
    THEN Return(Nil, ErrorfW("failed to save chargeback: ", err))
    ELSE Return(Nil, Nil)

\* AfterSave returning the response together with the store's error
AfterSaveResponseOnError(chargeback, err) ==
    IF ~IsNil(err)
    THEN Return(ToResponse(chargeback),
                ErrorfW("failed to save chargeback: ", err))
    ELSE Return(ToResponse(chargeback), Nil)

\* AfterSave with a step that fails after the write succeeded
AfterSaveFailsAfterWrite(chargeback, err) ==
    IF ~IsNil(err)
    THEN Return(Nil, ErrorfW("failed to save chargeback: ", err))
    ELSE Return(Nil, NewError("failed to build response"))

\* AfterSave trying the write again when the store failed
AfterSaveRetry(chargeback, err) ==
    IF ~IsNil(err)
    THEN Continue("save")
    ELSE Return(ToResponse(chargeback), Nil)

\* 3. and 4. the check on what Save returned, and the response
AfterSave(chargeback, err) ==
    IF ~IsNil(err)
    THEN Return(Nil, ErrorfW("failed to save chargeback: ", err))
    ELSE Return(ToResponse(chargeback), Nil)

\* Execute validating the request before it looks the transaction up
BeginValidatingFirst(p, r) ==
    /\ call[p].pc = "idle"
    /\ call' = [call EXCEPT ![p] =
                  [IdleCall EXCEPT
                     !.pc = IF IsNil(Validate(ToEntityRequest(r)))
                            THEN "find" ELSE "create",
                     !.req = r]]
    /\ UNCHANGED <<store, nextID, clock, entityVars, lambdaVars, masked,
                   serverVars, loggerVars, logEntryVars>>

\* Execute(ctx, req) is called
Begin(p, r) ==
    /\ call[p].pc = "idle"
    /\ call' = [call EXCEPT ![p] = [IdleCall EXCEPT !.pc = "find", !.req = r]]
    /\ UNCHANGED <<store, nextID, clock, entityVars, lambdaVars, masked,
                 serverVars, loggerVars, logEntryVars>>

\* Execute is called while no other call is running
BeginSeq(p, r) ==
    /\ \A q \in Calls : call[q].pc \in {"idle", "done"}
    /\ Begin(p, r)

\* the lookup returned found, e
LookupStep(p, found, e) ==
    LET o == AfterFind(call[p].req, found, e)
    IN /\ call' = [call EXCEPT ![p] =
                     [@ EXCEPT !.existingChargeback = found,
                               !.lookupErr = e,
                               !.pc = o.pc,
                               !.resp = o.resp,
                               !.err = o.err,
                               !.trace = Append(@, "FindByTransactionID")]]
       /\ UNCHANGED <<store, nextID, clock, entityVars, lambdaVars, masked,
                 serverVars, loggerVars, logEntryVars>>

\* step 1, the store answering
Lookup(p) ==
    /\ call[p].pc = "find"
    /\ LookupStep(p, FindByTransactionID(store, call[p].req.TransactionID),
                  Nil)

\* step 1, the store failing
LookupFails(p, e) ==
    /\ call[p].pc = "find"
    /\ LookupStep(p, Nil, e)

\* step 2, the entity factory
Create(p) ==
    /\ call[p].pc = "create"
    /\ LET r == NewChargeback(ToEntityRequest(call[p].req), clock)
           o == AfterNew(r.chargeback, r.err)
       IN call' = [call EXCEPT ![p] =
                     [@ EXCEPT !.chargeback = r.chargeback,
                               !.newErr = r.err,
                               !.pc = o.pc,
                               !.resp = o.resp,
                               !.err = o.err,
                               !.trace = Append(@, "NewChargeback")]]
    /\ UNCHANGED <<store, nextID, clock, entityVars, lambdaVars, masked,
                 serverVars, loggerVars, logEntryVars>>

\* steps 3 and 4, the store writing the record and assigning its identifier
Save(p) ==
    /\ call[p].pc = "save"
    /\ LET saved == Saved(call[p].chargeback, NewID(nextID))
           o == AfterSave(saved, Nil)
       IN /\ store' = Append(store, saved)
          /\ nextID' = nextID + 1
          /\ call' = [call EXCEPT ![p] =
                        [@ EXCEPT !.chargeback = saved,
                                  !.saveErr = Nil,
                                  !.pc = o.pc,
                                  !.resp = o.resp,
                                  !.err = o.err,
                                  !.trace = Append(@, "Save")]]
    /\ UNCHANGED <<clock, entityVars, lambdaVars, masked,
                 serverVars, loggerVars, logEntryVars>>

\* step 3, the store failing: nothing is written
SaveFails(p, e) ==
    /\ call[p].pc = "save"
    /\ LET o == AfterSave(call[p].chargeback, e)
       IN call' = [call EXCEPT ![p] =
                     [@ EXCEPT !.saveErr = e,
                               !.pc = o.pc,
                               !.resp = o.resp,
                               !.err = o.err,
                               !.trace = Append(@, "Save")]]
    /\ UNCHANGED <<store, nextID, clock, entityVars, lambdaVars, masked,
                 serverVars, loggerVars, logEntryVars>>

\* time passes
Tick ==
    /\ clock < MaxClock
    /\ clock' = clock + 1
    /\ UNCHANGED <<useCaseVars, entityVars, lambdaVars, masked,
                 serverVars, loggerVars, logEntryVars>>

Step(p) ==
    \/ Lookup(p)
    \/ \E e \in StoreErrors : LookupFails(p, e)
    \/ Create(p)
    \/ Save(p)
    \/ \E e \in StoreErrors : SaveFails(p, e)

\* calls running concurrently
Next ==
    \/ \E p \in Calls, r \in Requests : Begin(p, r)
    \/ \E p \in Calls : Step(p)
    \/ Tick

Spec == Init /\ [][Next]_vars

\* calls running one after another
NextSeq ==
    \/ \E p \in Calls, r \in Requests : BeginSeq(p, r)
    \/ \E p \in Calls : Step(p)
    \/ Tick

SpecSeq == Init /\ [][NextSeq]_vars

(***************************************************************************)
(* The entity on its own: made once by the factory, then approved and      *)
(* rejected in any order, any number of times.                             *)
(***************************************************************************)
TransactionIDPool == {"tx-1", "  ", ""}
MerchantIDPool == {"m-1", ""}
AmountPool == {15075, 0, -5000}
CurrencyPool == {"USD", " "}
CardNumberPool == {"4111111111111111", "4111-1111 1111-1111", "12345",
                   "1234", "12-34", "12-3", "- -", "", "  "}
ReasonPool == {ReasonFraud, ReasonAuthorizationError, ReasonProcessingError,
               ReasonConsumerDispute, "", "not_a_reason"}
DescriptionPool == {"", "duplicate charge"}
TransactionDatePool == {0, 5}

EntityRequests ==
    {Request(tx, m, a, cur, card, reason, descr, d) :
        tx \in TransactionIDPool, m \in MerchantIDPool, a \in AmountPool,
        cur \in CurrencyPool, card \in CardNumberPool, reason \in ReasonPool,
        descr \in DescriptionPool, d \in TransactionDatePool}

\* chargeback, err := NewChargeback(r)
MakeChargeback(r) ==
    /\ cbPc = "init"
    /\ LET res == NewChargeback(r, clock)
       IN /\ cb' = res.chargeback
          /\ cbErr' = res.err
          /\ cbPc' = IF IsNil(res.err) THEN "made" ELSE "failed"
    /\ cbReq' = r
    /\ cbOp' = "NewChargeback"
    /\ UNCHANGED <<useCaseVars, clock, lambdaVars, masked,
                 serverVars, loggerVars, logEntryVars>>

\* err := chargeback.Approve()
ApproveEntity ==
    /\ cbPc = "made"
    /\ LET res == Approve(cb, clock)
       IN /\ cb' = res.chargeback
          /\ cbErr' = res.err
    /\ cbOp' = "Approve"
    /\ UNCHANGED <<useCaseVars, clock, cbReq, cbPc, lambdaVars, masked,
                 serverVars, loggerVars, logEntryVars>>

\* err := chargeback.Reject()
RejectEntity ==
    /\ cbPc = "made"
    /\ LET res == Reject(cb, clock)
       IN /\ cb' = res.chargeback
          /\ cbErr' = res.err
    /\ cbOp' = "Reject"
    /\ UNCHANGED <<useCaseVars, clock, cbReq, cbPc, lambdaVars, masked,
                 serverVars, loggerVars, logEntryVars>>

NextEntity ==
    \/ \E r \in EntityRequests : MakeChargeback(r)
    \/ ApproveEntity
    \/ RejectEntity
    \/ Tick

SpecEntity == Init /\ [][NextEntity]_vars

(***************************************************************************)
(* maskCardNumber on its own, applied to every string of up to MaxCardLen  *)
(* characters over digits and the two separators it removes.               *)
(***************************************************************************)
CardAlphabet == {"1", "7", " ", "-"}

\* the strings of at most n characters over CardAlphabet
RECURSIVE CardStrings(_)
CardStrings(n) ==
    IF n = 0 THEN {""}
    ELSE LET shorter == CardStrings(n - 1)
         IN shorter \cup {c \o t : c \in CardAlphabet, t \in shorter}

\* result := maskCardNumber(s)
MaskCard(s) ==
    /\ masked = Nil
    /\ masked' = [input |-> s, output |-> maskCardNumber(s)]
    /\ UNCHANGED <<useCaseVars, clock, entityVars, lambdaVars,
                 serverVars, loggerVars, logEntryVars>>

NextMask == \E s \in CardStrings(MaxCardLen) : MaskCard(s)

SpecMask == Init /\ [][NextMask]_vars

(***************************************************************************)
(* The Lambda adapter: handler routes an API Gateway request by path and   *)
(* method; handleCreateChargeback decodes the body, calls Execute and maps *)
(* its outcome to a status code.  One handler instance serves one request  *)
(* at a time; its Execute call is the call LambdaCall.                     *)
(***************************************************************************)
\* strings.HasPrefix(s, prefix)
HasPrefix(s, prefix) ==
    Len(s) >= Len(prefix) /\ SubSeq(s, 1, Len(prefix)) = prefix

\* strings.Contains(s, substr)
Contains(s, substr) ==
    \E i \in 1..(Len(s) - Len(substr) + 1) :
        SubSeq(s, i, i + Len(substr) - 1) = substr

LambdaCall == 1

\* the errors the store fails with, one of them a rejection by the store of
\* the parameters it was sent
RepositoryErrors ==
    StoreErrors
    \cup {NewError("api error ValidationException: "
                   \o "1 validation error detected")}

\* request bodies: text that is not a JSON object of the request's shape,
\* and the JSON encodings of the requests
MalformedBody == [wellFormed |-> FALSE, object |-> Nil]
JSONBody(r) == [wellFormed |-> TRUE, object |-> r]

\* json.Unmarshal([]byte(request.Body), &req)
Unmarshal(body) ==
    IF body.wellFormed
    THEN [req |-> body.object, err |-> Nil]
    ELSE [req |-> Nil, err |-> NewError("unexpected end of JSON input")]

PathPool == {"/health", "/healthz", "/chargebacks", "/chargebacks/cb_1",
             "/api/v1/chargebacks", "/api/v1"}
MethodPool == {"GET", "POST", "PUT"}

\* events.APIGatewayProxyRequest
APIGatewayProxyRequest(path, method, body) ==
    [Path |-> path, HTTPMethod |-> method, Body |-> body]

\* the requests the handler is invoked with; only a POST carries a body
LambdaRequests ==
    {APIGatewayProxyRequest(path, "POST", body) :
        path \in PathPool,
        body \in {MalformedBody} \cup {JSONBody(r) : r \in Requests}}
    \cup {APIGatewayProxyRequest(path, method, MalformedBody) :
            path \in PathPool, method \in MethodPool \ {"POST"}}

\* events.APIGatewayProxyResponse, its body decoded
APIGatewayProxyResponse(statusCode, body) ==
    [StatusCode |-> statusCode, Body |-> body]

\* the switch of handler matching the create paths exactly
RouteExactPaths(request) ==
    IF request.Path = "/health" /\ request.HTTPMethod = "GET"
    THEN "handleHealth"
    ELSE IF request.Path = "/chargebacks" /\ request.HTTPMethod = "POST"
    THEN "handleCreateChargeback"
    ELSE IF request.Path = "/api/v1/chargebacks"
            /\ request.HTTPMethod = "POST"
    THEN "handleCreateChargeback"
    ELSE "default"

\* the switch of handler: the function the request is routed to
Route(request) ==
    IF request.Path = "/health" /\ request.HTTPMethod = "GET"
    THEN "handleHealth"
    ELSE IF HasPrefix(request.Path, "/chargebacks")
            /\ request.HTTPMethod = "POST"
    THEN "handleCreateChargeback"
    ELSE IF HasPrefix(request.Path, "/api/v1/chargebacks")
            /\ request.HTTPMethod = "POST"
    THEN "handleCreateChargeback"
    ELSE "default"

\* handleHealth(ctx)
handleHealth ==
    APIGatewayProxyResponse(200, [status |-> "healthy",
                                  service |-> "chargeback-lambda"])

\* the default case of handler
RouteNotFound ==
    APIGatewayProxyResponse(404, [error |-> "Not Found",
                                  message |-> "Route not found"])

\* handleCreateChargeback when the body does not decode
InvalidJSON(err) ==
    APIGatewayProxyResponse(400, [error |-> "Bad Request",
                                  message |-> "Invalid JSON: " \o err.msg])

\* handleCreateChargeback after Execute returned chargeback, err
AfterExecute(chargeback, err) ==
    IF ~IsNil(err)
    THEN IF Contains(err.msg, "validation")
         THEN APIGatewayProxyResponse(400, [error |-> "Validation Error",
                                            message |-> err.msg])
         ELSE APIGatewayProxyResponse(500,
                  [error |-> "Internal Server Error",
                   message |-> "Failed to create chargeback"])
    ELSE APIGatewayProxyResponse(201, chargeback)

\* no request is being handled
HandlerFree == invocation = Nil \/ response # Nil

\* handler is invoked and answers without calling Execute
InvokeDirect(request) ==
    /\ HandlerFree
    /\ \/ Route(request) = "handleHealth" /\ response' = handleHealth
       \/ Route(request) = "default" /\ response' = RouteNotFound
       \/ /\ Route(request) = "handleCreateChargeback"
          /\ ~IsNil(Unmarshal(request.Body).err)
          /\ response' = InvalidJSON(Unmarshal(request.Body).err)
    /\ invocation' = request
    /\ call' = [call EXCEPT ![LambdaCall] = IdleCall]
    /\ UNCHANGED <<store, nextID, clock, entityVars, masked,
                 serverVars, loggerVars, logEntryVars>>

\* handler is invoked, decodes the body and calls Execute
InvokeCreate(request) ==
    /\ HandlerFree
    /\ Route(request) = "handleCreateChargeback"
    /\ IsNil(Unmarshal(request.Body).err)
    /\ invocation' = request
    /\ response' = Nil
    /\ call' = [call EXCEPT ![LambdaCall] =
                  [IdleCall EXCEPT !.pc = "find",
                                   !.req = Unmarshal(request.Body).req]]
    /\ UNCHANGED <<store, nextID, clock, entityVars, masked,
                 serverVars, loggerVars, logEntryVars>>

\* Execute has returned: handleCreateChargeback answers
Respond ==
    /\ invocation # Nil
    /\ response = Nil
    /\ call[LambdaCall].pc = "done"
    /\ response' = AfterExecute(call[LambdaCall].resp, call[LambdaCall].err)
    /\ UNCHANGED <<useCaseVars, clock, entityVars, invocation, masked,
                 serverVars, loggerVars, logEntryVars>>

\* the steps of the handler's Execute call
StepLambda ==
    \/ Lookup(LambdaCall)
    \/ \E e \in RepositoryErrors : LookupFails(LambdaCall, e)
    \/ Create(LambdaCall)
    \/ Save(LambdaCall)
    \/ \E e \in RepositoryErrors : SaveFails(LambdaCall, e)

NextLambda ==
    \/ \E request \in LambdaRequests : InvokeDirect(request)
    \/ \E request \in LambdaRequests : InvokeCreate(request)
    \/ StepLambda
    \/ Respond
    \/ Tick

SpecLambda == Init /\ [][NextLambda]_vars

(***************************************************************************)
(* The HTTP server: ServeHTTP sets the CORS headers, answers a preflight   *)
(* request at once, answers 404 to a path that is no route, and otherwise  *)
(* lets the mux dispatch to handleHealth or to the create-chargeback       *)
(* handler.  What is written to the http.ResponseWriter is the record w:   *)
(* its headers, its status code (0 until WriteHeader is called), its body  *)
(* and the route handler that ran, "" when none did.                       *)
(***************************************************************************)
HTTPMethodPool == {"GET", "POST", "PUT", "DELETE", "HEAD", "OPTIONS"}
URLPathPool == {"/health", "/chargebacks", "/", "/health/", "/healthz",
                "/chargebacks/", "/chargebacks/cb_1", "/api/v1/chargebacks",
                "/nonexistent"}

\* *http.Request
HTTPRequest(method, path) == [Method |-> method, Path |-> path]

HTTPRequests ==
    {HTTPRequest(method, path) :
        method \in HTTPMethodPool, path \in URLPathPool}

\* a ResponseWriter nothing was written to
NewResponseWriter ==
    [Header |-> <<>>, StatusCode |-> 0, Body |-> Nil, Handler |-> "",
     Logged |-> Nil]

\* w.Header().Set(key, value)
SetHeader(w, key, value) ==
    [w EXCEPT !.Header =
        [k \in (DOMAIN w.Header) \cup {key} |->
            IF k = key THEN value ELSE w.Header[k]]]

\* w.WriteHeader(code): the first call decides the status
WriteHeader(w, code) ==
    IF w.StatusCode = 0 THEN [w EXCEPT !.StatusCode = code] ELSE w

\* json.NewEncoder(w).Encode(body)
Encode(w, body) == [WriteHeader(w, 200) EXCEPT !.Body = body]

\* Server.corsMiddleware
corsMiddleware(w, r) ==
    LET h1 == SetHeader(w, "Access-Control-Allow-Origin", "*")
        h2 == SetHeader(h1, "Access-Control-Allow-Methods",
                        "GET, POST, PUT, DELETE, OPTIONS")
        h3 == SetHeader(h2, "Access-Control-Allow-Headers",
                        "Content-Type, Authorization")
    IN IF r.Method = "OPTIONS" THEN WriteHeader(h3, 200) ELSE h3

\* routeExists accepting every path that begins with a route
routeExistsByPrefix(path) ==
    LET validRoutes == <<"/health", "/chargebacks">>
    IN \E i \in 1..Len(validRoutes) : HasPrefix(path, validRoutes[i])

\* Server.routeExists
routeExists(path) ==
    LET validRoutes == <<"/health", "/chargebacks">>
    IN \E i \in 1..Len(validRoutes) : path = validRoutes[i]

\* Server.handleHealth, with now the instant time.Now() returns
ServerHandleHealth(w, r, now) ==
    LET ran == [w EXCEPT !.Handler = "handleHealth"]
        typed == SetHeader(ran, "Content-Type", "application/json")
    IN IF r.Method # "GET"
       THEN Encode(WriteHeader(typed, 405),
                   [error |-> "Method not allowed"])
       ELSE Encode(WriteHeader(typed, 200),
                   [service |-> "chargeback-api", status |-> "ok",
                    timestamp |-> now])

\* the statuses the create-chargeback handler answers with: created,
\* validation or duplicate error, infrastructure error; 405 to a method
\* other than POST
CreateStatuses(method) ==
    IF method = "POST" THEN {201, 400, 409, 500} ELSE {405}

\* ChargebackHandler.CreateChargeback answering with status
CreateChargeback(w, r, status) ==
    LET ran == [w EXCEPT !.Handler = "CreateChargeback"]
        typed == SetHeader(ran, "Content-Type", "application/json")
    IN Encode(WriteHeader(typed, status), [status |-> status])

\* http.NotFound, the mux's answer to a path with no pattern
MuxNotFound(w) ==
    LET typed == SetHeader(w, "Content-Type", "text/plain; charset=utf-8")
    IN [WriteHeader(typed, 404) EXCEPT
            !.Body = [text |-> "404 page not found"]]

\* s.mux.ServeHTTP(wrapped, r) with the routes of setupRoutes
MuxServeHTTP(w, r, now, status) ==
    IF r.Path = "/health" THEN ServerHandleHealth(w, r, now)
    ELSE IF r.Path = "/chargebacks" THEN CreateChargeback(w, r, status)
    ELSE MuxNotFound(w)

\* the fields of the "HTTP request processed" record given to the logger
RequestLog(w, r) ==
    [w EXCEPT !.Logged =
        [message |-> "HTTP request processed", method |-> r.Method,
         path |-> r.Path,
         status_code |-> IF w.StatusCode = 0 THEN 200 ELSE w.StatusCode]]

\* ServeHTTP going on to the routes after a preflight request
ServedAfterPreflight(r, now, status) ==
    LET w == corsMiddleware(NewResponseWriter, r)
    IN IF ~routeExists(r.Path)
       THEN RequestLog(
                Encode(WriteHeader(
                           SetHeader(w, "Content-Type", "application/json"),
                           404),
                       [error |-> "Not found"]), r)
       ELSE RequestLog(MuxServeHTTP(w, r, now, status), r)

\* Server.ServeHTTP: what has been written when it returns, with now the
\* instant and status the answer of the create-chargeback handler
Served(r, now, status) ==
    LET w == corsMiddleware(NewResponseWriter, r)
    IN IF r.Method = "OPTIONS" THEN w
       ELSE IF ~routeExists(r.Path)
       THEN RequestLog(
                Encode(WriteHeader(
                           SetHeader(w, "Content-Type", "application/json"),
                           404),
                       [error |-> "Not found"]), r)
       ELSE RequestLog(MuxServeHTTP(w, r, now, status), r)

\* the server serves r
ServeHTTP(r, status) ==
    /\ status \in CreateStatuses(r.Method)
    /\ httpReq' = r
    /\ httpResp' = Served(r, clock, status)
    /\ UNCHANGED <<useCaseVars, clock, entityVars, lambdaVars, masked,
                   loggerVars, logEntryVars>>

NextServer ==
    \/ \E r \in HTTPRequests, status \in {201, 400, 405, 409, 500} :
            ServeHTTP(r, status)
    \/ Tick

SpecServer == Init /\ [][NextServer]_vars

(***************************************************************************)
(* Logging: LogLevel and LogEntry of the domain, and the StructuredLogger  *)
(* built on slog.  The field map of a LogEntry is a Go map, a reference:   *)
(* heap[ref] is the map behind the reference ref, and 0 is the nil map.    *)
(***************************************************************************)
LogLevelDebug == 0
LogLevelInfo == 1
LogLevelWarn == 2
LogLevelError == 3

SlogLevelDebug == -4
SlogLevelInfo == 0
SlogLevelWarn == 4
SlogLevelError == 8

FormatJSON == 0
FormatText == 1

\* LogLevel.String
LogLevelString(l) ==
    IF l = LogLevelDebug THEN "DEBUG"
    ELSE IF l = LogLevelInfo THEN "INFO"
    ELSE IF l = LogLevelWarn THEN "WARN"
    ELSE IF l = LogLevelError THEN "ERROR"
    ELSE "UNKNOWN"

\* LogLevel.IsValid
LogLevelIsValid(l) == l >= LogLevelDebug /\ l <= LogLevelError

\* LogFormat.IsValid
LogFormatIsValid(f) == f >= FormatJSON /\ f <= FormatText

\* LogEntry.Validate
LogEntryValidate(e) ==
    IF e.Message = "" THEN NewError("log message cannot be empty")
    ELSE IF ~LogLevelIsValid(e.Level)
    THEN NewError("invalid log level: " \o LogLevelString(e.Level))
    ELSE Nil

\* LoggerConfig.Validate
LoggerConfigValidate(c) ==
    IF ~LogLevelIsValid(c.Level)
    THEN NewError("invalid log level: " \o LogLevelString(c.Level))
    ELSE IF ~LogFormatIsValid(c.Format)
    THEN NewError("invalid log format: unknown")
    ELSE Nil

\* convertLogLevel
convertLogLevel(level) ==
    IF level = LogLevelDebug THEN SlogLevelDebug
    ELSE IF level = LogLevelInfo THEN SlogLevelInfo
    ELSE IF level = LogLevelWarn THEN SlogLevelWarn
    ELSE IF level = LogLevelError THEN SlogLevelError
    ELSE SlogLevelInfo

\* convertDomainLevelToSlog taking a warning for an informational record
convertDomainLevelToSlogNoWarn(level) ==
    IF level = LogLevelDebug THEN SlogLevelDebug
    ELSE IF level = LogLevelInfo THEN SlogLevelInfo
    ELSE IF level = LogLevelError THEN SlogLevelError
    ELSE SlogLevelInfo

\* convertDomainLevelToSlog
convertDomainLevelToSlog(level) ==
    IF level = LogLevelDebug THEN SlogLevelDebug
    ELSE IF level = LogLevelInfo THEN SlogLevelInfo
    ELSE IF level = LogLevelWarn THEN SlogLevelWarn
    ELSE IF level = LogLevelError THEN SlogLevelError
    ELSE SlogLevelInfo

\* a map with no key
EmptyMap == [k \in {} |-> ""]

\* the map behind a reference; ranging over the nil map finds no key
MapAt(h, ref) == IF ref = 0 THEN EmptyMap ELSE h[ref]

\* the map m with the keys of extra set to extra's values
Merged(m, extra) ==
    [k \in (DOMAIN m) \cup (DOMAIN extra) |->
        IF k \in DOMAIN extra THEN extra[k] ELSE m[k]]

\* LogEntry{Level, Message, Fields}
LogEntry(level, message, fields) ==
    [Level |-> level, Message |-> message, Fields |-> fields]

LogLevelPool == {-1, LogLevelDebug, LogLevelInfo, LogLevelWarn,
                 LogLevelError, 4}
MessagePool == {"", "chargeback created"}
FieldMapPool == {EmptyMap,
                 [k \in {"request_id"} |-> "r-1"],
                 [k \in {"request_id", "user_id"} |->
                     IF k = "user_id" THEN "u-1" ELSE "r-2"]}

\* the entries a caller can build over the maps made so far
LogEntries ==
    {LogEntry(level, message, ref) :
        level \in LogLevelPool, message \in MessagePool,
        ref \in 0..Len(heap)}

LoggerConfig(level, format, serviceName) ==
    [Level |-> level, Format |-> format, ServiceName |-> serviceName]

LoggerConfigs ==
    {LoggerConfig(level, format, "chargeback-api") :
        level \in LogLevelPool, format \in {FormatJSON, FormatText, 2}}

\* a caller makes a field map
NewFields(m) ==
    /\ Len(heap) < MaxHeap
    /\ heap' = Append(heap, m)
    /\ UNCHANGED <<useCaseVars, clock, entityVars, lambdaVars, masked,
                   serverVars, loggerVars, entryOp>>

\* NewStructuredLogger(config, writer): no logger for an invalid config
NewStructuredLogger(config) ==
    /\ logger = Nil
    /\ logger' = IF ~IsNil(LoggerConfigValidate(config))
                 THEN Nil
                 ELSE [logger |-> [Level |-> convertLogLevel(config.Level),
                                   service |-> config.ServiceName],
                       level |-> config.Level,
                       config |-> config]
    /\ UNCHANGED <<useCaseVars, clock, entityVars, lambdaVars, masked,
                   serverVars, logOut, logRes, logEntryVars>>

\* StructuredLogger.Log: the error returned and the records written
Logged(s, h, entry) ==
    LET err == LogEntryValidate(entry)
        slogLevel == convertDomainLevelToSlog(entry.Level)
    IN IF ~IsNil(err)
       THEN [err |-> ErrorfW("invalid log entry: ", err), written |-> <<>>]
       ELSE IF ~(slogLevel >= s.logger.Level)
       THEN [err |-> Nil, written |-> <<>>]
       ELSE [err |-> Nil,
             written |-> << [level |-> slogLevel,
                             msg |-> entry.Message,
                             service |-> s.logger.service,
                             attrs |-> MapAt(h, entry.Fields)] >>]

\* err := logger.Log(ctx, entry)
Log(entry) ==
    /\ logger # Nil
    /\ Len(logOut) < MaxLogs
    /\ LET res == Logged(logger, heap, entry)
       IN /\ logOut' = logOut \o res.written
          /\ logRes' = [entry |-> entry, err |-> res.err]
    /\ UNCHANGED <<useCaseVars, clock, entityVars, lambdaVars, masked,
                   serverVars, logger, logEntryVars>>

NextLogger ==
    \/ \E m \in FieldMapPool : NewFields(m)
    \/ \E config \in LoggerConfigs : NewStructuredLogger(config)
    \/ \E entry \in LogEntries : Log(entry)

SpecLogger == Init /\ [][NextLogger]_vars

\* WithField writing the key into the map of the receiver
WithFieldInPlace(h, e, key, value) ==
    IF e.Fields = 0
    THEN [heap |-> Append(h, [k \in {key} |-> value]),
          entry |-> LogEntry(e.Level, e.Message, Len(h) + 1)]
    ELSE [heap |-> [h EXCEPT ![e.Fields] =
                        Merged(@, [k \in {key} |-> value])],
          entry |-> e]

\* LogEntry.WithField(key, value) on the heap h: the heap and the entry
\* returned
WithField(h, e, key, value) ==
    LET newFields == Merged(Merged(EmptyMap, MapAt(h, e.Fields)),
                            [k \in {key} |-> value])
    IN [heap |-> Append(h, newFields),
        entry |-> LogEntry(e.Level, e.Message, Len(h) + 1)]

\* LogEntry.WithFields(fields) on the heap h
WithFields(h, e, fields) ==
    LET newFields == Merged(Merged(EmptyMap, MapAt(h, e.Fields)),
                            MapAt(h, fields))
    IN [heap |-> Append(h, newFields),
        entry |-> LogEntry(e.Level, e.Message, Len(h) + 1)]

FieldKeyPool == {"request_id", "trace_id"}
FieldValuePool == {"r-9"}

\* derived := e.WithField(key, value)
WithFieldCall(e, key, value) ==
    /\ Len(heap) < MaxHeap + 2
    /\ LET res == WithField(heap, e, key, value)
       IN /\ heap' = res.heap
          /\ entryOp' = [op |-> "WithField", receiver |-> e,
                         added |-> [k \in {key} |-> value],
                         result |-> res.entry]
    /\ UNCHANGED <<useCaseVars, clock, entityVars, lambdaVars, masked,
                   serverVars, loggerVars>>

\* derived := e.WithFields(fields)
WithFieldsCall(e, fields) ==
    /\ Len(heap) < MaxHeap + 2
    /\ LET res == WithFields(heap, e, fields)
       IN /\ heap' = res.heap
          /\ entryOp' = [op |-> "WithFields", receiver |-> e,
                         added |-> MapAt(heap, fields),
                         result |-> res.entry]
    /\ UNCHANGED <<useCaseVars, clock, entityVars, lambdaVars, masked,
                   serverVars, loggerVars>>

NextLogEntry ==
    \/ \E m \in FieldMapPool : NewFields(m)
    \/ \E e \in LogEntries, key \in FieldKeyPool, value \in FieldValuePool :
            WithFieldCall(e, key, value)
    \/ \E e \in LogEntries, fields \in 0..Len(heap) : WithFieldsCall(e, fields)

SpecLogEntry == Init /\ [][NextLogEntry]_vars

(***************************************************************************)
(* Properties of Execute.                                                  *)
(***************************************************************************)
Done(p) == call[p].pc = "done"

Succeeded(p) == Done(p) /\ IsNil(call[p].err)

DuplicateError(txid) ==
    NewError("chargeback already exists for transaction " \o txid)

FullTrace == <<"FindByTransactionID", "NewChargeback", "Save">>

\* no two records of the store have the same transaction ID
UniqueTransactionIDs ==
    \A i, j \in 1..Len(store) :
        i # j => store[i].TransactionID # store[j].TransactionID

\* a lookup that the store answers while it holds a record for the
\* request's transaction ID ends the call with the duplicate error, and
\* writes nothing
SecondExecuteFails ==
    \A p \in Calls :
        (/\ call[p].pc = "find"
         /\ call'[p].pc # "find"
         /\ IsNil(call'[p].lookupErr)
         /\ RecordsOf(store, call[p].req.TransactionID) # {})
        => /\ call'[p].pc = "done"
           /\ IsNil(call'[p].resp)
           /\ call'[p].err = DuplicateError(call[p].req.TransactionID)
           /\ store' = store

\* C1: when Execute calls run one after another, a call for a transaction
\* ID that already has a record fails with "chargeback already exists for
\* transaction <id>" and writes nothing, and the store never holds two
\* records for one transaction ID.
C1_SequentialUniqueness ==
    []UniqueTransactionIDs /\ [][SecondExecuteFails]_vars

\* a first call has written its record and a later call for the same
\* transaction ID has failed as a duplicate
C1_Witness ==
    \E p, q \in Calls :
        /\ p # q
        /\ Succeeded(p)
        /\ Done(q)
        /\ call[q].err = DuplicateError(call[p].req.TransactionID)
        /\ Len(store) = 1

\* p and q, two calls for one transaction ID, were both told by the store
\* that no record exists, and both had their Save succeed
BothAbsentBothSaved(p, q) ==
    /\ p # q
    /\ Done(p) /\ Done(q)
    /\ call[p].req.TransactionID = call[q].req.TransactionID
    /\ IsNil(call[p].lookupErr) /\ IsNil(call[q].lookupErr)
    /\ IsNil(call[p].existingChargeback) /\ IsNil(call[q].existingChargeback)
    /\ call[p].trace = FullTrace /\ call[q].trace = FullTrace
    /\ IsNil(call[p].saveErr) /\ IsNil(call[q].saveErr)

\* C2: two concurrent Execute calls for the same valid transaction ID whose
\* lookups both return "absent" before either Save both succeed, and the
\* store ends with two records for that one transaction ID.
C2_RaceWritesTwoRecords ==
    \A p, q \in Calls :
        BothAbsentBothSaved(p, q)
        => /\ Succeeded(p) /\ Succeeded(q)
           /\ ~IsNil(call[p].resp) /\ ~IsNil(call[q].resp)
           /\ call[p].resp.ID # call[q].resp.ID
           /\ Cardinality(RecordsOf(store, call[p].req.TransactionID)) >= 2

\* the race has happened: both calls succeeded, two records for "tx-1"
C2_Witness ==
    \E p, q \in Calls :
        /\ BothAbsentBothSaved(p, q)
        /\ Succeeded(p) /\ Succeeded(q)
        /\ Cardinality(RecordsOf(store, call[p].req.TransactionID)) = 2

\* C3: if FindByTransactionID returns an error, Execute returns a nil
\* response and an error wrapping the store's error, and neither the entity
\* factory nor Save is invoked in that call.
C3_LookupErrorPropagates ==
    \A p \in Calls :
        ~IsNil(call[p].lookupErr)
        => /\ Done(p)
           /\ IsNil(call[p].resp)
           /\ ~IsNil(call[p].err)
           /\ Unwrap(call[p].err) = call[p].lookupErr
           /\ call[p].err.msg = "failed to check existing chargeback: "
                                \o call[p].lookupErr.msg
           /\ IsNil(call[p].chargeback)
           /\ call[p].trace = <<"FindByTransactionID">>

\* a call whose lookup failed has returned
C3_Witness ==
    \E p \in Calls :
        /\ Done(p)
        /\ call[p].lookupErr = NewError("database connection failed")

\* C4: if FindByTransactionID returns a record and no error, Execute returns
\* a nil response and an error whose text is exactly "chargeback already
\* exists for transaction " followed by the request's transaction ID, and
\* Save is never called in that call.
C4_DuplicateRejected ==
    \A p \in Calls :
        (IsNil(call[p].lookupErr) /\ ~IsNil(call[p].existingChargeback))
        => /\ Done(p)
           /\ IsNil(call[p].resp)
           /\ ~IsNil(call[p].err)
           /\ call[p].err.msg = "chargeback already exists for transaction "
                                \o call[p].req.TransactionID
           /\ IsNil(Unwrap(call[p].err))
           /\ call[p].trace = <<"FindByTransactionID">>

\* a call whose lookup found a record has returned
C4_Witness ==
    \E p \in Calls :
        /\ Done(p)
        /\ ~IsNil(call[p].existingChargeback)
        /\ call[p].existingChargeback.TransactionID = "tx-1"
        /\ call[p].err.msg = "chargeback already exists for transaction tx-1"

\* the call p got past a lookup that found no record, with a request that
\* fails validation, and the factory has run
InvalidAfterAbsent(p) ==
    /\ call[p].pc \notin {"idle", "find", "create"}
    /\ IsNil(call[p].lookupErr)
    /\ IsNil(call[p].existingChargeback)
    /\ ~IsNil(Validate(ToEntityRequest(call[p].req)))

\* C5 as stated: when the lookup finds no record and the request fails
\* validation, the error Execute returns is the entity factory's validation
\* failure unchanged, with the same text "validation errors: ...", the
\* response is nil, and Save is never called.
C5_ValidationErrorUnchanged ==
    \A p \in Calls :
        InvalidAfterAbsent(p)
        => /\ Done(p)
           /\ IsNil(call[p].resp)
           /\ call[p].err = Validate(ToEntityRequest(call[p].req))
           /\ call[p].trace = <<"FindByTransactionID", "NewChargeback">>

\* C5, amended: when the lookup finds no record and the request fails
\* validation, the error Execute returns wraps the entity factory's
\* validation failure: its text is "failed to create chargeback entity: "
\* followed by the factory's text "validation errors: ...", and unwrapping
\* it gives the factory's error; the response is nil, and Save is never
\* called.
C5_ValidationErrorWrapped ==
    \A p \in Calls :
        InvalidAfterAbsent(p)
        => /\ Done(p)
           /\ IsNil(call[p].resp)
           /\ ~IsNil(call[p].err)
           /\ call[p].newErr = Validate(ToEntityRequest(call[p].req))
           /\ Unwrap(call[p].err) = call[p].newErr
           /\ call[p].err.msg = "failed to create chargeback entity: "
                                \o call[p].newErr.msg
           /\ IsNil(call[p].chargeback)
           /\ call[p].trace = <<"FindByTransactionID", "NewChargeback">>

\* a call with an invalid request has returned after a lookup that found
\* nothing
C5_Witness ==
    \E p \in Calls :
        /\ InvalidAfterAbsent(p)
        /\ call[p].err.msg = "failed to create chargeback entity: "
             \o "validation errors: amount must be greater than zero"

\* C6: if Save returns an error, Execute returns a nil response and an error
\* wrapping the store's error; no response view is produced from the entity
\* that failed to persist.
C6_SaveErrorPropagates ==
    \A p \in Calls :
        ~IsNil(call[p].saveErr)
        => /\ Done(p)
           /\ IsNil(call[p].resp)
           /\ ~IsNil(call[p].err)
           /\ Unwrap(call[p].err) = call[p].saveErr
           /\ call[p].err.msg = "failed to save chargeback: "
                                \o call[p].saveErr.msg

\* a call whose Save failed has returned
C6_Witness ==
    \E p \in Calls :
        /\ Done(p)
        /\ call[p].saveErr = NewError("failed to save to database")
        /\ call[p].trace = FullTrace

\* C7: on a successful Execute the response is a field-for-field projection
\* of the record as it is after Save returned: the ID is the identifier the
\* store assigned during Save (non-empty), the status is "pending", the card
\* number is the masked form, and every other field equals the record's.
C7_ResponseIsProjection ==
    \A p \in Calls :
        Succeeded(p)
        => LET r == call[p].resp
               c == call[p].chargeback
           IN /\ ~IsNil(r)
              /\ DOMAIN r = DOMAIN c
              /\ \A f \in DOMAIN c : r[f] = c[f]
              /\ r.ID # ""
              /\ \E i \in 1..Len(store) : store[i] = c /\ store[i].ID = r.ID
              /\ r.Status = "pending"
              /\ r.CardNumber = maskCardNumber(call[p].req.CardNumber)
              /\ r.TransactionID = call[p].req.TransactionID
              /\ r.MerchantID = call[p].req.MerchantID
              /\ r.Amount = call[p].req.Amount
              /\ r.Currency = call[p].req.Currency
              /\ r.Reason = call[p].req.Reason
              /\ r.Description = call[p].req.Description
              /\ r.TransactionDate = call[p].req.TransactionDate

\* a call has succeeded with a request whose card number masking changes
C7_Witness ==
    \E p \in Calls :
        /\ Succeeded(p)
        /\ call[p].resp.ID = "cb_1"
        /\ call[p].req.CardNumber = "5555-5555 5555-4444"
        /\ call[p].resp.CardNumber = "************4444"

\* a step that changes the store is the step in which a call returns
\* success, and a step in which a call returns an error leaves the store
\* as it was
NoPartialCommit ==
    /\ store' # store
       => \E p \in Calls :
             /\ call[p].pc = "save"
             /\ call'[p].pc = "done"
             /\ IsNil(call'[p].err)
             /\ ~IsNil(call'[p].resp)
    /\ \A p \in Calls :
          (call[p].pc # "done" /\ call'[p].pc = "done"
              /\ ~IsNil(call'[p].err))
          => store' = store
    /\ \A p \in Calls :
          (call[p].pc = "save" /\ call'[p].pc # "save"
              /\ IsNil(call'[p].saveErr))
          => call'[p].pc = "done" /\ IsNil(call'[p].err)

\* C8: no partial commits: an Execute call that returns an error (lookup
\* failure, duplicate, validation failure, or a Save that failed without
\* persisting) leaves the records of the store as they were, and a call
\* that completed a successful Save always returns success.
C8_NoPartialCommits == [][NoPartialCommit]_vars

\* one call has returned the error of a failed Save, which wrote nothing,
\* and another has written its record and returned success
C8_Witness ==
    \E p, q \in Calls :
        /\ Done(p) /\ ~IsNil(call[p].saveErr)
        /\ Succeeded(q)
        /\ Len(store) = 1

IsPrefix(s, t) == Len(s) <= Len(t) /\ s = SubSeq(t, 1, Len(s))

\* C9: no retries: in every Execute call FindByTransactionID is invoked
\* exactly once and Save at most once, the lookup before the Save; a
\* collaborator failure ends the call at once and no call to the store
\* follows it.
C9_NoRetries ==
    \A p \in Calls :
        /\ IsPrefix(call[p].trace, FullTrace)
        /\ call[p].pc \in {"create", "save", "done"} => Len(call[p].trace) >= 1
        /\ ~IsNil(call[p].lookupErr)
           => Done(p) /\ call[p].trace = <<"FindByTransactionID">>
        /\ ~IsNil(call[p].saveErr)
           => Done(p) /\ call[p].trace = FullTrace

\* a call has returned after a failed Save, with one lookup and one Save
C9_Witness ==
    \E p \in Calls :
        /\ Done(p)
        /\ ~IsNil(call[p].saveErr)
        /\ call[p].trace = FullTrace
        /\ \E q \in Calls : Done(q) /\ ~IsNil(call[q].lookupErr)

(***************************************************************************)
(* Properties of the entity.                                               *)
(***************************************************************************)
\* the status stays as it is, or goes from pending to approved or rejected
StatusStep ==
    (cbPc = "made" /\ cbPc' = "made")
    => \/ cb'.Status = cb.Status
       \/ /\ cb.Status = StatusPending
          /\ cb'.Status \in {StatusApproved, StatusRejected}

\* C10: for a record created by NewChargeback and then subjected to any
\* sequence of Approve and Reject calls, the status changes at most once,
\* only from "pending" to "approved" or from "pending" to "rejected"; once it
\* is "approved" or "rejected" no later call changes it.
C10_StatusLifecycle ==
    /\ [](cbPc = "made"
            => cb.Status \in {StatusPending, StatusApproved, StatusRejected})
    /\ [][cbPc' = "made" /\ cbPc = "init" => cb'.Status = StatusPending]_vars
    /\ [][StatusStep]_vars

\* an approved record on which a later Reject has failed
C10_Witness ==
    /\ cbPc = "made"
    /\ cb.Status = StatusApproved
    /\ cbErr = NewError("only pending chargebacks can be rejected")

\* the fields of a record other than its status and its updated-at
OtherFieldsKept ==
    /\ DOMAIN cb' = DOMAIN cb
    /\ \A f \in DOMAIN cb \ {"Status", "UpdatedAt"} : cb'[f] = cb[f]

\* a step that is the call of op on the record, with outcome status to and
\* failure text msg
TransitionStep(op, to, msg) ==
    (cbPc = "made" /\ cbOp' = op /\ clock' = clock)
    => IF cb.Status = StatusPending
       THEN /\ cbErr' = Nil
            /\ cb'.Status = to
            /\ cb'.UpdatedAt = clock
            /\ OtherFieldsKept
       ELSE /\ cbErr' = NewError(msg)
            /\ cb' = cb

\* C11: Approve and Reject succeed exactly when the current status is
\* "pending"; on success the status becomes "approved" (respectively
\* "rejected") and updated-at is set to the instant of the call; otherwise
\* the call returns "only pending chargebacks can be approved" (respectively
\* "... rejected") and every field of the record is left as it was.
C11_ApproveRejectTransitions ==
    /\ [][TransitionStep("Approve", StatusApproved,
                         "only pending chargebacks can be approved")]_vars
    /\ [][TransitionStep("Reject", StatusRejected,
                         "only pending chargebacks can be rejected")]_vars

\* a record approved some time after its creation, on which a second Approve
\* has failed
C11_Witness ==
    /\ cbPc = "made"
    /\ cbOp = "Approve"
    /\ cb.Status = StatusApproved
    /\ cb.UpdatedAt > cb.CreatedAt
    /\ cbErr = NewError("only pending chargebacks can be approved")

\* a string with nothing but white space in it, the empty string included
IsBlank(s) == \A i \in 1..Len(s) : SubSeq(s, i, i) \in WhiteSpace

\* the seven rules of a request in the fixed order, each with whether the
\* request violates it and the message of the rule
Rules(req) ==
    << [violated |-> IsBlank(req.TransactionID),
        message |-> "transaction ID is required"],
       [violated |-> IsBlank(req.MerchantID),
        message |-> "merchant ID is required"],
       [violated |-> ~(req.Amount > 0),
        message |-> "amount must be greater than zero"],
       [violated |-> IsBlank(req.Currency),
        message |-> "currency is required"],
       [violated |-> IsBlank(req.CardNumber),
        message |-> "card number is required"],
       [violated |-> req.Reason \notin {"fraud", "authorization_error",
                                        "processing_error",
                                        "consumer_dispute"},
        message |-> "invalid chargeback reason"],
       [violated |-> req.TransactionDate = 0,
        message |-> "transaction date is required"] >>

AllRulesHold(req) == \A i \in 1..7 : ~Rules(req)[i].violated

\* the messages of the violated rules from rule i on, each preceded by sep
\* except the first
RECURSIVE ViolatedText(_, _, _)
ViolatedText(req, i, first) ==
    IF i > 7 THEN ""
    ELSE IF Rules(req)[i].violated
    THEN (IF first THEN "" ELSE "; ") \o Rules(req)[i].message
         \o ViolatedText(req, i + 1, FALSE)
    ELSE ViolatedText(req, i + 1, first)

\* C12: Validate returns no error if and only if all seven rules hold at
\* once: transaction ID, merchant ID, currency and card number non-blank
\* after trimming, amount strictly greater than zero, reason one of fraud,
\* authorization_error, processing_error, consumer_dispute, and transaction
\* date non-zero.
C12_ValidateIffAllRules ==
    cbPc # "init" => (IsNil(Validate(cbReq)) <=> AllRulesHold(cbReq))

\* a request with white space around its fields that holds all seven rules,
\* validated without error
C12_Witness ==
    /\ cbPc # "init"
    /\ AllRulesHold(cbReq)
    /\ cbReq.CardNumber = "4111-1111 1111-1111"
    /\ IsNil(Validate(cbReq))
    /\ IsNil(cbErr)

\* C13: Validate never stops at the first violation: for every request that
\* violates some rules, the error text is exactly "validation errors: "
\* followed by the message of each violated rule and of no other, in the
\* order transaction ID, merchant ID, amount, currency, card number, reason,
\* transaction date, joined with "; ".
C13_AllViolationsReported ==
    (cbPc # "init" /\ ~AllRulesHold(cbReq))
    => /\ ~IsNil(Validate(cbReq))
       /\ Validate(cbReq).msg
            = "validation errors: " \o ViolatedText(cbReq, 1, TRUE)

\* a request violating the merchant, amount and reason rules and no other
C13_Witness ==
    /\ cbPc = "failed"
    /\ cbReq.TransactionID = "tx-1"
    /\ cbReq.CardNumber = "12345"
    /\ cbErr = NewError("validation errors: merchant ID is required; "
                        \o "amount must be greater than zero; "
                        \o "invalid chargeback reason")

\* C14: NewChargeback on a request that fails Validate returns no entity
\* together with exactly the error Validate returned; it returns an entity
\* if and only if Validate succeeds.
C14_FactoryPropagatesValidation ==
    /\ cbPc # "init" => (~IsNil(cb) <=> IsNil(Validate(cbReq)))
    /\ cbPc = "failed"
        => /\ ~IsNil(Validate(cbReq))
           /\ IsNil(cb)
           /\ cbErr = Validate(cbReq)
    /\ (cbPc = "made" /\ cbOp = "NewChargeback") => IsNil(cbErr)

\* the factory has refused a request whose only fault is its amount
C14_Witness ==
    /\ cbPc = "failed"
    /\ cbOp = "NewChargeback"
    /\ IsNil(cb)
    /\ cbReq.Amount = -5000
    /\ cbErr = NewError("validation errors: amount must be greater than zero")

\* the record as NewChargeback has just returned it
FreshRecord == cbPc = "made" /\ cbOp = "NewChargeback"

\* C15: NewChargeback on a valid request returns a record whose transaction
\* ID, merchant ID, amount, currency, reason, description and transaction
\* date equal the request's, whose card number is maskCardNumber of the
\* request's card number and is non-empty, whose status is "pending", whose
\* identifier is empty, and whose chargeback-date, created-at and updated-at
\* are one and the same instant.
C15_FactoryBuildsRecord ==
    FreshRecord
    => /\ cb.TransactionID = cbReq.TransactionID
       /\ cb.MerchantID = cbReq.MerchantID
       /\ cb.Amount = cbReq.Amount
       /\ cb.Currency = cbReq.Currency
       /\ cb.Reason = cbReq.Reason
       /\ cb.Description = cbReq.Description
       /\ cb.TransactionDate = cbReq.TransactionDate
       /\ cb.CardNumber = maskCardNumber(cbReq.CardNumber)
       /\ cb.CardNumber # ""
       /\ cb.Status = "pending"
       /\ cb.ID = ""
       /\ cb.ChargebackDate = cb.CreatedAt
       /\ cb.CreatedAt = cb.UpdatedAt
       /\ cb.UpdatedAt <= clock

\* a record just made, at a later instant than the first, from a request
\* with a description and a card number written with separators
C15_Witness ==
    /\ FreshRecord
    /\ cbReq.CardNumber = "4111-1111 1111-1111"
    /\ cb.CardNumber = "************1111"
    /\ cb.Description = "duplicate charge"
    /\ cb.CreatedAt = 2

\* s with its spaces and hyphens taken out, built from its last character
RECURSIVE Cleaned(_)
Cleaned(s) ==
    IF Len(s) = 0 THEN ""
    ELSE LET last == SubSeq(s, Len(s), Len(s))
             front == SubSeq(s, 1, Len(s) - 1)
         IN IF last \in {" ", "-"} THEN Cleaned(front)
            ELSE Cleaned(front) \o last

\* a string of mask characters only
IsStars(s) == \A i \in 1..Len(s) : SubSeq(s, i, i) = "*"

\* a string with a mask character in it
HasStar(s) == \E i \in 1..Len(s) : SubSeq(s, i, i) = "*"

\* C16 as stated: for every card number whose length after removing spaces
\* and hyphens is at most 4, a cleaned length of exactly 4 included,
\* maskCardNumber returns exactly "****".
C16_AtMostFourMasked ==
    (masked # Nil /\ Len(Cleaned(masked.input)) <= 4)
    => masked.output = "****"

\* C16: for every card number whose length after removing spaces and
\* hyphens is less than 4, the empty string included, maskCardNumber returns
\* exactly "****".
C16_ShortMasked ==
    (masked # Nil /\ Len(Cleaned(masked.input)) < 4)
    => masked.output = "****"

\* three digits between separators, masked as "****"
C16_Witness ==
    /\ masked # Nil
    /\ masked.input = "1-7 1"
    /\ masked.output = "****"

\* C17: for every card number whose cleaned form has length n > 4,
\* maskCardNumber returns n - 4 mask characters followed by the last 4
\* characters of the cleaned form, so that the result has length n.
C17_LongMasked ==
    (masked # Nil /\ Len(Cleaned(masked.input)) > 4)
    => LET cleaned == Cleaned(masked.input)
           n == Len(cleaned)
       IN /\ Len(masked.output) = n
          /\ IsStars(SubSeq(masked.output, 1, n - 4))
          /\ SubSeq(masked.output, n - 3, n) = SubSeq(cleaned, n - 3, n)

\* five digits with a separator among the last four
C17_Witness ==
    /\ masked # Nil
    /\ masked.input = "1771-7"
    /\ masked.output = "*7717"

\* C18 as stated: the card number of every record NewChargeback produces
\* contains a mask character unless the card number as submitted had 4 or
\* fewer characters.
C18_MaskedUnlessRawShort ==
    (cbPc = "made" /\ Len(cbReq.CardNumber) > 4) => HasStar(cb.CardNumber)

\* C18: the card number of every record NewChargeback produces contains a
\* mask character unless the card number submitted, with its spaces and
\* hyphens removed, has exactly 4 characters.
C18_MaskedUnlessCleanedFour ==
    (cbPc = "made" /\ Len(Cleaned(cbReq.CardNumber)) # 4)
    => HasStar(cb.CardNumber)

\* a record made from a card number of three digits and a hyphen
C18_Witness ==
    /\ cbPc = "made"
    /\ cbReq.CardNumber = "12-3"
    /\ cb.CardNumber = "****"

\* handleCreateChargeback has answered after its Execute call failed
ExecuteFailureAnswered ==
    /\ response # Nil
    /\ call[LambdaCall].pc = "done"
    /\ ~IsNil(call[LambdaCall].err)

\* C19 as stated: in the Lambda adapter every Execute failure caused by
\* request validation is answered with status 400, and every Execute
\* failure caused by a store error, on lookup or on save, whatever the
\* error, is answered with status 500.
C19_StatusMapping ==
    ExecuteFailureAnswered
    => /\ ~IsNil(call[LambdaCall].newErr) => response.StatusCode = 400
       /\ (~IsNil(call[LambdaCall].lookupErr)
            \/ ~IsNil(call[LambdaCall].saveErr))
           => response.StatusCode = 500

\* C20 as stated: in the Lambda adapter a create request whose transaction
\* ID already has a record, for which Execute returns the duplicate error,
\* is answered with status 400 or 409, never with a 5xx status.
C20_DuplicateIsClientError ==
    (ExecuteFailureAnswered /\ ~IsNil(call[LambdaCall].existingChargeback))
    => response.StatusCode \in {400, 409}

\* the request is for a route the Lambda adapter knows, with a method the
\* route does not support
UnsupportedMethodOnKnownRoute(request) ==
    \/ request.Path = "/health" /\ request.HTTPMethod # "GET"
    \/ /\ \/ HasPrefix(request.Path, "/chargebacks")
          \/ HasPrefix(request.Path, "/api/v1/chargebacks")
       /\ request.HTTPMethod # "POST"

\* C21 as stated, for the Lambda adapter: a request to a known route with an
\* unsupported method, any non-GET on /health and any non-POST on
\* /chargebacks or /api/v1/chargebacks, is answered with status 405.
C21_MethodNotAllowed ==
    (response # Nil /\ UnsupportedMethodOnKnownRoute(invocation))
    => response.StatusCode = 405

\* C22: in the HTTP server, every request other than OPTIONS whose path is
\* not exactly "/health" or "/chargebacks" is answered with status 404 and
\* body {"error": "Not found"}, and no route handler is invoked for it.
C22_UnknownPathNotFound ==
    (httpReq # Nil /\ httpReq.Method # "OPTIONS"
        /\ httpReq.Path \notin {"/health", "/chargebacks"})
    => /\ httpResp.StatusCode = 404
       /\ httpResp.Body = [error |-> "Not found"]
       /\ httpResp.Handler = ""

\* a POST to a path under /chargebacks, answered 404 with no handler run
C22_Witness ==
    /\ httpReq = HTTPRequest("POST", "/chargebacks/cb_1")
    /\ httpResp.StatusCode = 404
    /\ httpResp.Handler = ""

\* the (path, method) pairs of the health route and of the create route
IsHealthRequest(request) ==
    request.Path = "/health" /\ request.HTTPMethod = "GET"

IsCreateRequest(request) ==
    /\ request.HTTPMethod = "POST"
    /\ \/ /\ Len(request.Path) >= 12
          /\ SubSeq(request.Path, 1, 12) = "/chargebacks"
       \/ /\ Len(request.Path) >= 19
          /\ SubSeq(request.Path, 1, 19) = "/api/v1/chargebacks"

\* the Execute call of the current invocation has been made
UseCaseInvoked == call[LambdaCall].pc # "idle"

LogStep ==
    (logger # Nil /\ logger' = logger /\ heap' = heap /\ logRes' # Nil)
    => LET entry == logRes'.entry
           valid == entry.Message # "" /\ entry.Level \in 0..3
           enabled == entry.Level >= logger.config.Level
       IN /\ (valid /\ enabled)
               <=> (Len(logOut') = Len(logOut) + 1)
          /\ (valid /\ enabled)
               => /\ logOut'[Len(logOut')].msg = entry.Message
                  /\ SubSeq(logOut', 1, Len(logOut)) = logOut
          /\ ~(valid /\ enabled) => logOut' = logOut
          /\ ~valid <=> ~IsNil(logRes'.err)

\* C24: StructuredLogger.Log writes an entry to the output if and only if
\* the entry is valid (non-empty message, level in Debug..Error) and its
\* level is at or above the configured minimum level; an invalid entry
\* yields an error and no output, and a valid entry below the minimum
\* yields no error and no output.
C24_LogFiltersByLevel == [][LogStep]_vars

\* a logger with minimum level Warn has written a Warn entry
C24_Witness ==
    /\ logger # Nil
    /\ logger.config.Level = LogLevelWarn
    /\ Len(logOut) = 1
    /\ logOut[1].level = SlogLevelWarn
    /\ logRes # Nil
    /\ logRes.entry.Level = LogLevelWarn
    /\ IsNil(logRes.err)

\* a step that is a WithField or WithFields call, recorded in entryOp'
WithStep ==
    (entryOp' # entryOp)
    => LET e == entryOp'.receiver
           r == entryOp'.result
           added == entryOp'.added
           before == IF e.Fields = 0 THEN EmptyMap ELSE heap[e.Fields]
       IN /\ Len(heap') >= Len(heap)
          /\ \A ref \in 1..Len(heap) : heap'[ref] = heap[ref]
          /\ r.Level = e.Level
          /\ r.Message = e.Message
          /\ r.Fields \in (1..Len(heap')) \ (0..Len(heap))
          /\ DOMAIN heap'[r.Fields] = (DOMAIN before) \cup (DOMAIN added)
          /\ \A k \in DOMAIN added : heap'[r.Fields][k] = added[k]
          /\ \A k \in (DOMAIN before) \ (DOMAIN added) :
                heap'[r.Fields][k] = before[k]

\* C25: LogEntry.WithField and LogEntry.WithFields never modify the
\* receiver: the field map of the original entry is unchanged, and the entry
\* returned has the same level and message and a fresh field map equal to
\* the original fields overridden and extended by the added ones.
C25_WithFieldKeepsReceiver == [][WithStep]_vars

\* WithField has overridden, in a copy, a key the receiver's map has
C25_Witness ==
    /\ entryOp # Nil
    /\ entryOp.op = "WithField"
    /\ entryOp.receiver.Fields = 1
    /\ heap[1] = [k \in {"request_id"} |-> "r-1"]
    /\ entryOp.result.Fields = 2
    /\ heap[2] = [k \in {"request_id"} |-> "r-9"]

\* C27: maskCardNumber applied to an input whose cleaned length is exactly
\* 4 returns those 4 characters unchanged ("1234" gives "1234"), while a
\* cleaned length of 0 to 3 gives "****".
C27_ExactlyFourUnmasked ==
    masked # Nil
    => LET cleaned == Cleaned(masked.input)
       IN /\ Len(cleaned) = 4 => masked.output = cleaned
          /\ Len(cleaned) \in 0..3 => masked.output = "****"

\* four digits written with separators come back as the four digits
C27_Witness ==
    /\ masked # Nil
    /\ masked.input = "17-1 7"
    /\ masked.output = "1717"

\* s with the separator sep put in after its first i characters
Inserted(s, i, sep) == SubSeq(s, 1, i) \o sep \o SubSeq(s, i + 1, Len(s))

\* s without its character i
Removed(s, i) == SubSeq(s, 1, i - 1) \o SubSeq(s, i + 1, Len(s))

\* C29: maskCardNumber is idempotent and separator-insensitive: for every
\* input s, maskCardNumber(maskCardNumber(s)) = maskCardNumber(s), and
\* inserting or removing a space or a hyphen anywhere in s does not change
\* maskCardNumber(s).
C29_MaskIdempotent ==
    masked # Nil
    => LET s == masked.input
       IN /\ maskCardNumber(masked.output) = masked.output
          /\ \A i \in 0..Len(s), sep \in {" ", "-"} :
                maskCardNumber(Inserted(s, i, sep)) = masked.output
          /\ \A i \in 1..Len(s) :
                SubSeq(s, i, i) \in {" ", "-"}
                => maskCardNumber(Removed(s, i)) = masked.output

\* a six-digit number with a hyphen in it, masked to what masking leaves
\* as it is
C29_Witness ==
    /\ masked # Nil
    /\ masked.input = "17-171"
    /\ masked.output = "*7171"
    /\ maskCardNumber("*7171") = "*7171"

\* the request of the call p fails validation
InvalidRequest(p) == ~IsNil(Validate(ToEntityRequest(call[p].req)))

\* C28: in Execute the duplicate lookup always happens before validation:
\* the store is queried with the request's transaction ID as given even when
\* the request is invalid, a blank transaction ID included, and a request
\* that is invalid but whose transaction ID already has a record fails with
\* the duplicate error, not with a validation error.
C28_LookupBeforeValidation ==
    \A p \in Calls :
        /\ call[p].pc = "find" => call[p].trace = <<>>
        /\ call[p].pc \notin {"idle", "find"}
            => /\ Len(call[p].trace) >= 1
               /\ call[p].trace[1] = "FindByTransactionID"
               /\ ~IsNil(call[p].existingChargeback)
                   => call[p].existingChargeback.TransactionID
                        = call[p].req.TransactionID
               /\ (InvalidRequest(p) /\ ~IsNil(call[p].existingChargeback))
                   => /\ Done(p)
                      /\ call[p].err
                           = DuplicateError(call[p].req.TransactionID)
                      /\ IsNil(call[p].newErr)
                      /\ call[p].trace = <<"FindByTransactionID">>
               /\ ~IsNil(call[p].newErr)
                   => /\ IsNil(call[p].existingChargeback)
                      /\ call[p].trace
                           = <<"FindByTransactionID", "NewChargeback">>

\* a request with an amount of zero, for a transaction that has a record,
\* has failed with the duplicate error after the lookup alone
C28_Witness ==
    \E p \in Calls :
        /\ Done(p)
        /\ call[p].req.Amount = 0
        /\ InvalidRequest(p)
        /\ call[p].err = DuplicateError("tx-1")
        /\ call[p].trace = <<"FindByTransactionID">>

\* C30: every record returned by NewChargeback satisfies IsValid(), and it
\* continues to satisfy IsValid() after any sequence of Approve and Reject
\* calls, successful or failed.
C30_RecordStaysValid == cbPc = "made" => IsValid(cb)

\* a rejected record on which a later Approve has failed, still valid
C30_Witness ==
    /\ cbPc = "made"
    /\ cb.Status = StatusRejected
    /\ cbOp = "Approve"
    /\ cbErr = NewError("only pending chargebacks can be approved")
    /\ IsValid(cb)

\* the response carries the three CORS headers
HasCORSHeaders(w) ==
    /\ {"Access-Control-Allow-Origin", "Access-Control-Allow-Methods",
         "Access-Control-Allow-Headers"} \subseteq DOMAIN w.Header
    /\ w.Header["Access-Control-Allow-Origin"] = "*"
    /\ w.Header["Access-Control-Allow-Methods"]
         = "GET, POST, PUT, DELETE, OPTIONS"
    /\ w.Header["Access-Control-Allow-Headers"]
         = "Content-Type, Authorization"

\* C26: in the HTTP server, an OPTIONS request to any path, known or not,
\* is answered with status 200 and the three CORS headers, and processing
\* stops there: no route handler runs, no 404 or 405 is produced and the
\* use case is not invoked; every other response also carries the three
\* CORS headers.
C26_PreflightAnswered ==
    httpReq # Nil
    => /\ HasCORSHeaders(httpResp)
       /\ httpReq.Method = "OPTIONS"
           => /\ httpResp.StatusCode = 200
              /\ httpResp.Handler = ""
              /\ httpResp.Body = Nil
              /\ httpResp.Logged = Nil

\* a preflight request to a path that is no route, answered 200
C26_Witness ==
    /\ httpReq = HTTPRequest("OPTIONS", "/nonexistent")
    /\ httpResp.StatusCode = 200
    /\ HasCORSHeaders(httpResp)

====
